---------------------------- MODULE Spec2Model ----------------------------
(***************************************************************************)
(* A model of the ERI retrieval server (rag-test): the security gateway    *)
(* and response hardening of main.py / security.py, the token service and  *)
(* the two authentication flows of auth.py, the credential store of        *)
(* user_store.py, the routes of api.py and the vector store manager of     *)
(* database.py / retrieval.py.                                             *)
(*                                                                         *)
(* One action handles one HTTP request from the first middleware to the    *)
(* response the client receives.  Time is counted in ticks, TicksPerSecond *)
(* of them to the second, so that the truncation of a JWT "exp" claim to   *)
(* whole seconds is part of the model.                                     *)
(***************************************************************************)
EXTENDS Integers, Sequences, FiniteSets, TLC

(***************************************************************************)
(* Bounds of the model.                                                    *)
(***************************************************************************)
TicksPerSecond == 2
\* the clock moves tick by tick for at most MaxSubTicks ticks after a jump
MaxSubTicks == 1
\* the clock jumps by a whole token lifetime at most MaxJumps times
MaxJumps == 1
\* largest explicit expires_delta (in ticks) tried on create_access_token
MaxDelta == 3
\* largest number of records the vector store holds in the model
MaxIndex == 4
\* largest length of a text handed to sanitize_input
MaxText == 3

(***************************************************************************)
(* Program constants.                                                      *)
(***************************************************************************)
SECRET_KEY == "your-secret-key-here"
OTHER_KEY == "some-other-key"
ACCESS_TOKEN_EXPIRE_MINUTES == 180
\* security.py:100, the literal 10_000_000
MAX_CONTENT_LENGTH == 10000000
\* retrieval.py:19, the literal 3
DEFAULT_K == 3

\* timedelta(minutes=ACCESS_TOKEN_EXPIRE_MINUTES), in ticks
DefaultLifetimeTicks == ACCESS_TOKEN_EXPIRE_MINUTES * 60 * TicksPerSecond

(***************************************************************************)
(* Values.  Header values and tokens are records, so that an absent        *)
(* header, an opaque string and a JWT can be compared with each other.     *)
(***************************************************************************)
NoHeader == [kind |-> "none"]
Raw(s) == [kind |-> "raw", val |-> s]
Jwt(sub, exp, key) == [kind |-> "jwt", sub |-> sub, exp |-> exp, key |-> key]

\* payload.get("sub") is None
NoSub == "<no sub>"
\* verify_token raised credentials_exception
Invalid == "<invalid>"
\* expires_delta=None
NoDelta == -1
\* no content-length header
NoLength == -1
\* Optional[str] that is None
None == "<None>"

Usernames == {"alice", "bob"}
Passwords == {"pw1", "pw2"}
\* pre-shared secrets and other opaque strings a client can present;
\* "ABC" differs from "abc" only in case
Secrets == {"abc", "ABC", "xyz", "nope"}

Lower(s) == IF s = "ABC" THEN "abc" ELSE s

(***************************************************************************)
(* config.py: VALID_STATIC_TOKENS.  The repository ships the allow-list    *)
(* empty; a deployment fills it in.  It is fixed at start-up, a dict in    *)
(* insertion order: a sequence of <<subject, secret>> pairs.               *)
(***************************************************************************)
AllowLists ==
    { <<>>,
      << <<"alice", "abc">>, <<"bob", "xyz">> >> }

Range(f) == { f[i] : i \in DOMAIN f }
AllowListValues(allow) == { p[2] : p \in Range(allow) }

(***************************************************************************)
(* auth.py: the token service.                                             *)
(***************************************************************************)
\* datetime -> intDate: timegm(utctimetuple()), whole seconds
IntDate(t) == t \div TicksPerSecond

\* auth.py create_access_token, with data = {"sub": sub}, called at time t
create_access_token(sub, expires_delta, t) ==
    LET expire == IF expires_delta # NoDelta /\ expires_delta # 0
                  THEN t + expires_delta
                  ELSE t + DefaultLifetimeTicks
    IN  Jwt(sub, IntDate(expire), SECRET_KEY)

\* a verify_token that does not check the signature
verify_token_any_key(token, t) ==
    IF /\ token.kind = "jwt"
       /\ ~(token.exp < IntDate(t))
       /\ token.sub # NoSub
    THEN token.sub
    ELSE Invalid

\* a verify_token that never checks the expiry
verify_token_no_exp(token, t) ==
    IF /\ token.kind = "jwt"
       /\ token.key = SECRET_KEY
       /\ token.sub # NoSub
    THEN token.sub
    ELSE Invalid

\* auth.py verify_token at time t: the subject, or Invalid where the code
\* raises credentials_exception (401).  jwt.decode fails on a string that is
\* not a JWT, on a signature made with another key, and when
\* exp < now (both in whole seconds).
verify_token(token, t) ==
    IF /\ token.kind = "jwt"
       /\ token.key = SECRET_KEY
       /\ ~(token.exp < IntDate(t))
       /\ token.sub # NoSub
    THEN token.sub
    ELSE Invalid

\* an is_static_token that recognises no token as static
is_static_token_never(token, allow) == FALSE

\* auth.py is_static_token: token in VALID_STATIC_TOKENS.values()
is_static_token(token, allow) ==
    token.kind = "raw" /\ token.val \in AllowListValues(allow)


(***************************************************************************)
(* models.py AuthResponse; auth.py: the two authentication flows.          *)
(***************************************************************************)
NoToken == [kind |-> "none"]
AuthResponse(success, token, message) ==
    [success |-> success, token |-> token, message |-> message]

\* the subject of the first allow-list entry, at or after position i, whose
\* secret cmp-equals the presented one; None when there is none
RECURSIVE FirstMatch(_, _, _)
FirstMatch(allow, secret, i) ==
    IF i > Len(allow) THEN None
    ELSE IF secret = allow[i][2] THEN allow[i][1]
    ELSE FirstMatch(allow, secret, i + 1)

\* an authenticate_user that compares the secret case-insensitively
RECURSIVE FirstMatchNoCase(_, _, _)
FirstMatchNoCase(allow, secret, i) ==
    IF i > Len(allow) THEN None
    ELSE IF Lower(secret) = Lower(allow[i][2]) THEN allow[i][1]
    ELSE FirstMatchNoCase(allow, secret, i + 1)

authenticate_user_nocase(secret, allow, t) ==
    LET username == FirstMatchNoCase(allow, secret, 1)
    IN  IF username # None
        THEN AuthResponse(TRUE,
                 create_access_token(username, DefaultLifetimeTicks, t),
                 "Authentication successful")
        ELSE AuthResponse(FALSE, NoToken, "Invalid token")

\* auth.py authenticate_user, called at time t with the presented secret
authenticate_user(secret, allow, t) ==
    LET username == FirstMatch(allow, secret, 1)
    IN  IF username # None
        THEN AuthResponse(TRUE,
                 create_access_token(username, DefaultLifetimeTicks, t),
                 "Authentication successful")
        ELSE AuthResponse(FALSE, NoToken, "Invalid token")

(***************************************************************************)
(* user_store.py: the credential store.  A users dict is a function from   *)
(* Usernames to a password or None (no entry).  The cache is the module    *)
(* global _users_cache, not loaded (None) until the first access.          *)
(***************************************************************************)
UserMaps == [Usernames -> Passwords \cup {None}]
EmptyUsers == [u \in Usernames |-> None]
NotLoaded == [loaded |-> FALSE, users |-> EmptyUsers]

\* the content of users.json after a write that stopped part-way: write_text
\* opens the file for writing, which empties it, before it writes
Corrupt == [u \in Usernames |-> "<unreadable>"]

\* user_store.py _load_users, lines 20-30: the dict made of the file's
\* content; content that json.loads rejects makes the empty dict
ParseUsers(file) == IF file = Corrupt THEN EmptyUsers ELSE file

\* user_store.py _load_users: the cache after the call
load_users(cache, file) ==
    IF cache.loaded THEN cache
    ELSE [loaded |-> TRUE, users |-> ParseUsers(file)]

\* dict.get(username)
DictGet(users, username) ==
    IF username \in DOMAIN users THEN users[username] ELSE None

\* user_store.py get_password: the value returned
get_password(username, cache, file) ==
    DictGet(load_users(cache, file).users, username)

\* an authenticate_user_password that reports which check failed
authenticate_user_password_leaky(user, password, stored_pw, t) ==
    IF stored_pw # None /\ stored_pw = password
    THEN AuthResponse(TRUE,
             create_access_token(user, DefaultLifetimeTicks, t),
             "Authentication successful")
    ELSE IF stored_pw = None
    THEN AuthResponse(FALSE, NoToken, "Unknown user")
    ELSE AuthResponse(FALSE, NoToken, "Invalid username or password")

\* an authenticate_user_password that accepts any password of a known user
authenticate_user_password_anypw(user, password, stored_pw, t) ==
    IF stored_pw # None
    THEN AuthResponse(TRUE,
             create_access_token(user, DefaultLifetimeTicks, t),
             "Authentication successful")
    ELSE AuthResponse(FALSE, NoToken, "Invalid username or password")

\* auth.py authenticate_user_password, with stored_pw = get_password(user)
authenticate_user_password(user, password, stored_pw, t) ==
    IF stored_pw # None /\ stored_pw = password
    THEN AuthResponse(TRUE,
             create_access_token(user, DefaultLifetimeTicks, t),
             "Authentication successful")
    ELSE AuthResponse(FALSE, NoToken, "Invalid username or password")

(***************************************************************************)
(* Exceptions, responses and what a layer of the application hands to the  *)
(* layer around it: a response, or an exception on its way up.             *)
(***************************************************************************)
HTTPException(status_code, detail) ==
    [kind |-> "HTTPException", status_code |-> status_code, detail |-> detail]
Response(status, body) ==
    [status |-> status, body |-> body, headers |-> {}]
Return(resp) == [kind |-> "response", resp |-> resp]
Raise(exc) == [kind |-> "raise", exc |-> exc]
Pass == [kind |-> "pass"]

(***************************************************************************)
(* security.py: SecurityManager.                                           *)
(***************************************************************************)
\* security.py _validate_request_size: looks at the content-length header
\* only; a body sent without one (chunked) is not measured.  (A header of
\* "0" passes either way.)
validate_request_size(req) ==
    IF req.content_length # NoLength /\ req.content_length > MAX_CONTENT_LENGTH
    THEN Raise(HTTPException(413, "Request too large"))
    ELSE Pass

\* security.py SecurityManager.validate_request_security: Pass, or the
\* HTTPException it raises.  _validate_rate_limit is a no-op.
SecurityManager_validate_request_security(req, allow) ==
    IF req.token = NoHeader
    THEN Raise(HTTPException(401, "No token provided"))
    ELSE IF is_static_token(req.token, allow)
    THEN Raise(HTTPException(401, "Invalid token type"))
    ELSE validate_request_size(req)

\* security.py get_security_headers
get_security_headers ==
    { <<"X-Content-Type-Options", "nosniff">>,
      <<"X-Frame-Options", "DENY">>,
      <<"X-XSS-Protection", "1; mode=block">>,
      <<"Strict-Transport-Security", "max-age=31536000; includeSubDomains">>,
      <<"Content-Security-Policy", "default-src 'self'; ...">>,
      <<"Referrer-Policy", "strict-origin-when-cross-origin">> }

\* a sanitize_input whose list lacks "<"
sanitize_input_partial(input_text) ==
    SelectSeq(input_text,
              LAMBDA c : c \notin {">", "{", "}", "(", ")", ";", "&", "|",
                                   "'", "\""})

\* a sanitize_input that removes one occurrence of each dangerous
\* character it finds
sanitize_input_once(input_text) ==
    LET drop(text, i) == SubSeq(text, 1, i - 1) \o
                         SubSeq(text, i + 1, Len(text))
        hit(text) == { i \in 1 .. Len(text) :
                         text[i] \in {"<", ">", "{", "}", "(", ")", ";",
                                      "&", "|", "'", "\""} }
    IN  IF hit(input_text) = {} THEN input_text
        ELSE drop(input_text,
                  CHOOSE i \in hit(input_text) :
                      \A j \in hit(input_text) : i <= j)

\* security.py sanitize_input: for each dangerous character in turn, remove
\* every occurrence of it
dangerous_chars == << "<", ">", "{", "}", "(", ")", ";", "&", "|", "'", "\"" >>
ReplaceChar(text, char) == SelectSeq(text, LAMBDA c : c # char)
RECURSIVE SanitizeFrom(_, _)
SanitizeFrom(text, i) ==
    IF i > Len(dangerous_chars) THEN text
    ELSE SanitizeFrom(ReplaceChar(text, dangerous_chars[i]), i + 1)
sanitize_input(input_text) == SanitizeFrom(input_text, 1)


(***************************************************************************)
(* The state.                                                              *)
(***************************************************************************)
VARIABLES
    now,                  \* the wall clock, in ticks
    VALID_STATIC_TOKENS,  \* config.py: the static allow-list
    users_file,           \* user_store.py: the content of users.json
    users_cache,          \* user_store.py: _users_cache
    vectorstore,          \* database.py: the records of the Chroma collection
    held,                 \* a token a client keeps after it was issued
    last,                 \* the last exchange: request, response, effects
    threads               \* user_store.py: the lock, the dict objects and
                          \* the threads inside upsert_user

vars == <<now, VALID_STATIC_TOKENS, users_file, users_cache, vectorstore,
          held, last, threads>>

(***************************************************************************)
(* main.py: the application's layers, outermost first:                     *)
(*   ServerErrorMiddleware (handler: general_exception_handler)            *)
(*   add_security_headers, validate_request_security, GZip, CORS           *)
(*   ExceptionMiddleware (handler: http_exception_handler)                 *)
(*   the router.                                                           *)
(* GZip and CORS hand requests, responses and exceptions through (a CORS   *)
(* preflight is answered before the router, which answers any other        *)
(* OPTIONS request with 405: no route handler runs in either case).        *)
(* A middleware registered later wraps the ones registered before it, and  *)
(* the handler registered for Exception is the one of the outermost layer. *)
(***************************************************************************)
AuthPaths == {"/auth", "/auth/methods"}
AdminPaths == {"/admin/user", "/admin/upload", "/admin/clear"}
DocPaths == {"/panda", "/redoc", "/openapi.json", "/docs",
             "/docs/oauth2-redirect", "/health", "/"}
InfoPaths == {"/retrieval/info", "/dataSource", "/embedding/info",
              "/security/requirements"}
ProtectedPaths == InfoPaths \cup {"/retrieval"}

\* path.startswith(prefix), on the paths of the model
PathStartsWith(path, prefix) ==
    \/ prefix = "/auth" /\ path \in AuthPaths
    \/ prefix = "/admin" /\ path \in AdminPaths

\* str(exc)
ExcStr(exc) ==
    IF exc.kind = "HTTPException" THEN <<exc.status_code, exc.detail>>
    ELSE <<exc.msg>>

\* main.py http_exception_handler
http_exception_handler(exc) ==
    Response(exc.status_code, [detail |-> exc.detail])

\* main.py general_exception_handler
general_exception_handler(exc) ==
    Response(500, [detail |-> <<"Internal server error", ExcStr(exc)>>])

\* the ExceptionMiddleware around the router: an HTTPException raised by a
\* route or one of its dependencies becomes a response, any other exception
\* goes on up
ExceptionMiddleware(outcome) ==
    IF outcome.kind = "raise" /\ outcome.exc.kind = "HTTPException"
    THEN Return(http_exception_handler(outcome.exc))
    ELSE outcome

\* the conditions under which the middleware validate_request_security
\* calls call_next without a check
GatewayExempt(req) ==
    \/ req.method = "OPTIONS"
    \/ PathStartsWith(req.path, "/auth")
    \/ PathStartsWith(req.path, "/admin")
    \/ req.path \in DocPaths

\* main.py validate_request_security, up to its call of call_next: Pass, or
\* the exception that leaves the middleware
GatewaySignal(req, allow) ==
    IF GatewayExempt(req) THEN Pass
    ELSE SecurityManager_validate_request_security(req, allow)

\* main.py validate_request_security around the inner layers
validate_request_security(req, allow, inner) ==
    IF GatewaySignal(req, allow).kind = "raise"
    THEN GatewaySignal(req, allow)
    ELSE inner

\* main.py add_security_headers: the headers are set on the response that
\* call_next returns; an exception raised below passes through
add_security_headers(outcome) ==
    IF outcome.kind = "response"
    THEN Return([outcome.resp EXCEPT !.headers = @ \cup get_security_headers])
    ELSE outcome

\* the outermost layer: the response the client receives
ServerErrorMiddleware(outcome) ==
    IF outcome.kind = "raise"
    THEN general_exception_handler(outcome.exc)
    ELSE outcome.resp

\* the response to req, where routed is what the router hands back when the
\* request gets that far
ClientResponse(req, allow, routed) ==
    ServerErrorMiddleware(
        add_security_headers(
            validate_request_security(req, allow,
                                      ExceptionMiddleware(routed))))

\* the request gets to the router
ReachesRouter(req, allow) ==
    GatewaySignal(req, allow).kind = "pass"

(***************************************************************************)
(* auth.py get_current_user, the dependency of every protected route.      *)
(***************************************************************************)
\* auth.py get_current_user at time t: Pass, or the HTTPException raised
\* (by APIKeyHeader when the header is absent, by verify_token otherwise)
get_current_user(token, t) ==
    IF token = NoHeader
    THEN Raise(HTTPException(403, "Not authenticated"))
    ELSE IF verify_token(token, t) = Invalid
    THEN Raise(HTTPException(401, "Could not validate credentials"))
    ELSE Pass


(***************************************************************************)
(* retrieval.py and database.py.                                           *)
(***************************************************************************)
NoPrompt == [present |-> FALSE, text |-> <<>>]
Prompt(text) == [present |-> TRUE, text |-> text]
NoQuery == [issued |-> FALSE]
\* a call of similarity_search: its arguments and the documents returned
Query(prompt, k, docs) ==
    [issued |-> TRUE, prompt |-> prompt, k |-> k, docs |-> docs]

Min(a, b) == IF a < b THEN a ELSE b

\* a bound that takes a maxMatches of zero as it is
ResolveK_nonneg(maxMatches) ==
    IF maxMatches >= 0 THEN maxMatches ELSE DEFAULT_K

\* retrieval.py process_retrieval_request: the bound handed to the search
ResolveK(maxMatches) == IF maxMatches > 0 THEN maxMatches ELSE DEFAULT_K

\* the chunks process_pdf makes of the uploaded document
Chunks == << "chunk-1", "chunk-2" >>

\* the order in which the index ranks its records for a query: the order
\* they were stored in, or the opposite one
Rankings == {"stored", "reversed"}
Reverse(seq) == [i \in 1 .. Len(seq) |-> seq[Len(seq) + 1 - i]]

\* a similarity_search that never returns more than its default of 3
similarity_search_capped(store, query, k, ranking) ==
    SubSeq(IF ranking = "stored" THEN store ELSE Reverse(store),
           1, Min(Min(k, DEFAULT_K), Len(store)))

\* database.py similarity_search: the k best-ranked records, all of them
\* when the index holds fewer
similarity_search(store, query, k, ranking) ==
    SubSeq(IF ranking = "stored" THEN store ELSE Reverse(store),
           1, Min(k, Len(store)))

\* retrieval.py process_retrieval_request, lines 25-33: the Context made of
\* a document
Context(doc) ==
    [name |-> "Papers/doc.pdf", category |-> "Research Paper",
     path |-> "Papers/doc.pdf", type |-> "TEXT", matchedContent |-> doc,
     surroundingContent |-> <<>>, links |-> <<>>]

\* retrieval.py process_retrieval_request: the documents found and the
\* contexts returned
process_retrieval_request(prompt, maxMatches, store, ranking) ==
    LET docs == similarity_search(store, prompt, ResolveK(maxMatches),
                                  ranking)
    IN  [docs |-> docs,
         contexts |-> [i \in 1 .. Len(docs) |-> Context(docs[i])]]

\* what makes process_retrieval_request raise, as the text of the exception
NoFailure == "-"
Causes == {"embedding model not loaded", "chroma: collection is locked"}

(***************************************************************************)
(* The requests of the model.                                              *)
(***************************************************************************)
Methods == {"GET", "POST", "OPTIONS"}

\* content-length header and size of the body: no body, a body of exactly
\* the limit, one byte more, and one byte more sent chunked (without a
\* content-length header)
NoFraming == [content_length |-> NoLength, body_size |-> 0]
AtLimit == [content_length |-> MAX_CONTENT_LENGTH,
            body_size |-> MAX_CONTENT_LENGTH]
OverLimit == [content_length |-> MAX_CONTENT_LENGTH + 1,
              body_size |-> MAX_CONTENT_LENGTH + 1]
ChunkedOverLimit == [content_length |-> NoLength,
                     body_size |-> MAX_CONTENT_LENGTH + 1]
Framings == {NoFraming, AtLimit, OverLimit, ChunkedOverLimit}

\* an exp claim later than every time of the model
FarExp == IntDate((MaxJumps + 1) * DefaultLifetimeTicks) + MaxSubTicks

\* the values of the token header: absent, opaque strings, and JWTs
HeaderTokens ==
    { NoHeader, Raw("abc"),
      Jwt("alice", IntDate(0), SECRET_KEY),
      Jwt("alice", FarExp, SECRET_KEY),
      Jwt(NoSub, FarExp, SECRET_KEY),
      Jwt("alice", FarExp, OTHER_KEY) }

NoCred == [authMethod |-> "-", bearer |-> NoHeader, user |-> None,
           password |-> None]
NoBody == [kind |-> "none"]

Request(method, path, token, framing, cred, body) ==
    [method |-> method, path |-> path, token |-> token,
     content_length |-> framing.content_length,
     body_size |-> framing.body_size, cred |-> cred, body |-> body]

\* the record of the exchange just completed: the request, what the gateway
\* did with it, the response the client received, the route handler that ran
\* ("none": none did), the query issued to the vector store and the session
\* token created
Exchange(req, resp, ran, query, issued) ==
    [kind |-> "http", req |-> req,
     gate |-> GatewaySignal(req, VALID_STATIC_TOKENS),
     resp |-> resp, ran |-> ran, query |-> query, issued |-> issued]
Idle == [kind |-> "idle"]

NoHeld == [kind |-> "none"]

(***************************************************************************)
(* user_store.py under threads.  upsert_user is taken line by line by each *)
(* thread that calls it.  A dict is an object: _users_cache and a thread's *)
(* local `users` are references to one, and the object _load_users makes   *)
(* in thread t is named t.                                                 *)
(***************************************************************************)
Threads == {"t1", "t2"}
NoOwner == "<free>"
IdleThread == [pc |-> "idle", username |-> None, password |-> None,
               users |-> None, raised |-> FALSE]

\* lock: the owner of _lock; cache: the object _users_cache refers to;
\* heap: the content of each dict object; th: the threads; before: what
\* get_password returned for each username when the first of the calls
\* under way began; concurrent: a call began while another was under way
NoThreads ==
    [lock |-> NoOwner, cache |-> None,
     heap |-> [t \in Threads |-> EmptyUsers],
     th |-> [t \in Threads |-> IdleThread],
     before |-> EmptyUsers, concurrent |-> FALSE]

Init ==
    /\ now \in 0 .. (TicksPerSecond - 1)
    /\ VALID_STATIC_TOKENS \in AllowLists
    /\ users_file = EmptyUsers
    /\ users_cache = NotLoaded
    /\ vectorstore = <<>>
    /\ held = NoHeld
    /\ last = Idle
    /\ threads = NoThreads

(***************************************************************************)
(* Time passes: by a tick, or by a whole default token lifetime.           *)
(***************************************************************************)
Advance ==
    /\ \E d \in {1, DefaultLifetimeTicks} :
          /\ d = 1 => (now % DefaultLifetimeTicks) < MaxSubTicks
          /\ d = DefaultLifetimeTicks =>
                 now + d <= MaxJumps * DefaultLifetimeTicks + MaxSubTicks
          /\ now' = now + d
    /\ last' = Idle
    /\ UNCHANGED <<threads, VALID_STATIC_TOKENS, users_file, users_cache, vectorstore,
                   held>>

(***************************************************************************)
(* api.py: the four protected GET routes (get_data_source_info,            *)
(* get_embedding_info, get_retrieval_info, get_security_requirements).     *)
(***************************************************************************)
InfoRequest ==
    \E path \in InfoPaths, method \in Methods, token \in HeaderTokens,
       framing \in {NoFraming, OverLimit} :
        LET req == Request(method, path, token, framing,
                           NoCred, NoBody)
            dep == get_current_user(token, now)
            routed == IF method # "GET"
                      THEN Raise(HTTPException(405, "Method Not Allowed"))
                      ELSE IF dep.kind = "raise" THEN dep
                      ELSE Return(Response(200, [info |-> path]))
            ran == /\ ReachesRouter(req, VALID_STATIC_TOKENS)
                   /\ method = "GET"
                   /\ dep.kind = "pass"
        IN  /\ method = "POST" => path = "/dataSource" /\ framing = NoFraming
            /\ last' = Exchange(req,
                           ClientResponse(req, VALID_STATIC_TOKENS, routed),
                           IF ran THEN path ELSE "none", NoQuery, NoToken)
            /\ UNCHANGED <<threads, now, VALID_STATIC_TOKENS, users_file, users_cache,
                           vectorstore, held>>

(***************************************************************************)
(* api.py retrieve: POST /retrieval.                                       *)
(***************************************************************************)
RetrievalBody(prompt, maxMatches) ==
    [kind |-> "retrieval", latestUserPrompt |-> prompt,
     maxMatches |-> maxMatches]
RetrievalBodies ==
    { RetrievalBody(NoPrompt, 1), RetrievalBody(Prompt(<<>>), 1),
      RetrievalBody(Prompt(<<"a">>), -1), RetrievalBody(Prompt(<<"a">>), 0),
      RetrievalBody(Prompt(<<"a">>), 1), RetrievalBody(Prompt(<<"a">>), 4),
      RetrievalBody(Prompt(<<"<", ";">>), 1),
      RetrievalBody(Prompt(<<"a", "<", "b">>), 1) }

\* a retrieve that does not look at the prompt before it searches
retrieve_unvalidated(body, store, failure, ranking) ==
    LET sanitized_prompt == sanitize_input(body.latestUserPrompt.text)
        found == process_retrieval_request(sanitized_prompt, body.maxMatches,
                                           store, ranking)
    IN  [out |-> Return(Response(200, [contexts |-> found.contexts])),
         query |-> Query(sanitized_prompt, ResolveK(body.maxMatches),
                         found.docs)]

\* api.py retrieve, the handler body: what it returns or raises, and the
\* query it issues.  failure: the exception process_retrieval_request
\* raises, if any.
retrieve(body, store, failure, ranking) ==
    IF ~body.latestUserPrompt.present \/ body.latestUserPrompt.text = <<>>
    THEN [out |-> Raise(HTTPException(400, "User prompt is required")),
          query |-> NoQuery]
    ELSE LET sanitized_prompt == sanitize_input(body.latestUserPrompt.text)
             found == process_retrieval_request(sanitized_prompt,
                          body.maxMatches, store, ranking)
         IN  IF failure # NoFailure
             THEN [out |-> Raise(HTTPException(500,
                               <<"Retrieval process failed", failure>>)),
                   query |-> Query(sanitized_prompt,
                                   ResolveK(body.maxMatches), <<>>)]
             ELSE [out |-> Return(Response(200,
                               [contexts |-> found.contexts])),
                   query |-> Query(sanitized_prompt,
                                   ResolveK(body.maxMatches), found.docs)]

RetrievalRequest ==
    \E method \in Methods, token \in HeaderTokens, framing \in Framings,
       body \in RetrievalBodies \cup {NoBody} :
        LET req == Request(method, "/retrieval", token, framing,
                           NoCred, body)
            dep == get_current_user(token, now)
            ran == /\ ReachesRouter(req, VALID_STATIC_TOKENS)
                   /\ method = "POST"
                   /\ dep.kind = "pass"
                   /\ body # NoBody
            searches == /\ ran
                        /\ body.latestUserPrompt.present
                        /\ body.latestUserPrompt.text # <<>>
        IN  /\ (body = NoBody) = (framing.body_size = 0)
            /\ method = "GET" => framing = NoFraming
            /\ framing \in {OverLimit, ChunkedOverLimit} \/ method = "OPTIONS" =>
                   body \in {NoBody, RetrievalBody(Prompt(<<"a">>), 1)}
            /\ dep.kind = "raise" =>
                   body \in {NoBody, RetrievalBody(NoPrompt, 1),
                             RetrievalBody(Prompt(<<"a">>), 1)}
            /\ \E failure \in IF searches THEN {NoFailure} \cup Causes
                                ELSE {NoFailure},
                  ranking \in IF searches /\ Len(vectorstore) > 1
                                THEN Rankings ELSE {"stored"} :
                  LET handled == retrieve(body, vectorstore, failure, ranking)
                      routed ==
                          IF method # "POST"
                          THEN Raise(HTTPException(405, "Method Not Allowed"))
                          ELSE IF dep.kind = "raise" THEN dep
                          ELSE IF body = NoBody
                          THEN Raise(HTTPException(422, "Field required"))
                          ELSE handled.out
                  IN  /\ failure # NoFailure => ranking = "stored"
                      /\ last' = Exchange(req,
                             ClientResponse(req, VALID_STATIC_TOKENS, routed),
                             IF ran THEN "/retrieval" ELSE "none",
                             IF ran THEN handled.query ELSE NoQuery,
                             NoToken)
            /\ UNCHANGED <<threads, now, VALID_STATIC_TOKENS, users_file, users_cache,
                           vectorstore, held>>


(***************************************************************************)
(* api.py authenticate: POST /auth?authMethod=...                          *)
(***************************************************************************)
NoCredTOKEN == [authMethod |-> "TOKEN", bearer |-> NoHeader, user |-> None,
                password |-> None]
AuthCreds ==
    { [authMethod |-> "TOKEN", bearer |-> b, user |-> None,
       password |-> None] : b \in {NoHeader, Raw("")} \cup
                                   { Raw(x) : x \in Secrets } }
    \cup
    { [authMethod |-> "USERNAME_PASSWORD", bearer |-> NoHeader, user |-> u,
       password |-> pw] : u \in Usernames \cup {None, ""},
                          pw \in Passwords \cup {None} }
    \cup
    { [authMethod |-> m, bearer |-> b, user |-> None, password |-> None] :
         m \in {"NONE", "KERBEROS"}, b \in {NoHeader, Raw("abc")} }
    \cup
    { [authMethod |-> m, bearer |-> NoHeader, user |-> "alice",
       password |-> "pw1"] : m \in {"NONE", "KERBEROS"} }

\* "not x" for an Optional[str]
Falsy(x) == x = None \/ x = ""

\* an authenticate that hands whatever headers it got to the flow of the
\* method, and takes every other method for USERNAME_PASSWORD
authenticate_unchecked(cred, allow, cache, file, t) ==
    IF cred.authMethod = "TOKEN"
    THEN LET r == authenticate_user(
                      IF cred.bearer = NoHeader THEN "" ELSE cred.bearer.val,
                      allow, t)
         IN  [out |-> Return(Response(200, r)),
              issued |-> r.token, cache |-> cache]
    ELSE LET r == authenticate_user_password(cred.user, cred.password,
                      get_password(cred.user, cache, file), t)
         IN  [out |-> Return(Response(200, r)),
              issued |-> r.token, cache |-> load_users(cache, file)]

\* api.py authenticate, the handler body: what it returns or raises, the
\* token it creates, and the cache after it
authenticate(cred, allow, cache, file, t) ==
    IF cred.authMethod = "TOKEN"
    THEN IF cred.bearer = NoHeader \/ cred.bearer.val = ""
         THEN [out |-> Raise(HTTPException(401, "No token provided")),
               issued |-> NoToken, cache |-> cache]
         ELSE LET r == authenticate_user(cred.bearer.val, allow, t)
              IN  [out |-> Return(Response(200, r)),
                   issued |-> r.token, cache |-> cache]
    ELSE IF cred.authMethod = "USERNAME_PASSWORD"
    THEN IF Falsy(cred.user) \/ Falsy(cred.password)
         THEN [out |-> Raise(HTTPException(400,
                           "Header 'username' and 'password' required.")),
               issued |-> NoToken, cache |-> cache]
         ELSE LET r == authenticate_user_password(cred.user, cred.password,
                           get_password(cred.user, cache, file), t)
              IN  [out |-> Return(Response(200, r)),
                   issued |-> r.token, cache |-> load_users(cache, file)]
    ELSE [out |-> Raise(HTTPException(400,
                      "Unsupported authentication method")),
          issued |-> NoToken, cache |-> cache]

AuthRequest ==
    \E method \in {"GET", "POST"}, cred \in AuthCreds :
        LET req == Request(method, "/auth", NoHeader,
                           NoFraming,
                           cred, NoBody)
            ran == ReachesRouter(req, VALID_STATIC_TOKENS) /\ method = "POST"
            handled == authenticate(cred, VALID_STATIC_TOKENS, users_cache,
                                    users_file, now)
            routed == IF method # "POST"
                      THEN Raise(HTTPException(405, "Method Not Allowed"))
                      ELSE handled.out
        IN  /\ method # "POST" => cred = NoCredTOKEN
            /\ last' = Exchange(req,
                           ClientResponse(req, VALID_STATIC_TOKENS, routed),
                           IF ran THEN "/auth" ELSE "none", NoQuery,
                           IF ran THEN handled.issued ELSE NoToken)
            /\ users_cache' = IF ran THEN handled.cache ELSE users_cache
            /\ UNCHANGED <<threads, now, VALID_STATIC_TOKENS, users_file, vectorstore,
                           held>>

(***************************************************************************)
(* api.py: the administrative routes.                                      *)
(***************************************************************************)
\* what an administrative request carries in its token header
AdminTokens == { NoHeader, Jwt("alice", FarExp, SECRET_KEY) }

\* an upsert_user that keeps the password of a username it already has
upsert_user_insert_only(username, password, cache, file) ==
    LET users == load_users(cache, file).users
    IN  IF users[username] # None THEN users
        ELSE [users EXCEPT ![username] = password]

\* user_store.py upsert_user: the users dict after the call (the cache and,
\* once saved, the file)
upsert_user(username, password, cache, file) ==
    [load_users(cache, file).users EXCEPT ![username] = password]

\* the ways the write of users.json ends: done ("ok"), or an OSError raised
\* when the file is opened ("unchanged": the file keeps its content) or
\* while it is written ("truncated")
SaveOutcomes == {"ok", "unchanged", "truncated"}

\* user_store.py _save_users: the content of users.json after the call
save_users(users, file, outcome) ==
    IF outcome = "ok" THEN users
    ELSE IF outcome = "unchanged" THEN file
    ELSE Corrupt

\* api.py create_user: POST /admin/user.  upsert_user changes the cached
\* dict before it writes the file; an OSError of the write leaves
\* upsert_user and the route as it is.
AdminUserRequest ==
    \E token \in AdminTokens, username \in Usernames, password \in Passwords,
       outcome \in SaveOutcomes :
        LET req == Request("POST", "/admin/user", token,
                           AtLimit,
                           NoCred,
                           [kind |-> "user", username |-> username,
                            password |-> password])
            users == upsert_user(username, password, users_cache, users_file)
            routed == IF outcome # "ok"
                      THEN Raise([kind |-> "Exception", msg |-> "OSError"])
                      ELSE Return(Response(200,
                               [success |-> TRUE, username |-> username]))
        IN  /\ ReachesRouter(req, VALID_STATIC_TOKENS)
            /\ users_cache' = [loaded |-> TRUE, users |-> users]
            /\ users_file' = save_users(users, users_file, outcome)
            /\ last' = Exchange(req,
                           ClientResponse(req, VALID_STATIC_TOKENS, routed),
                           "/admin/user", NoQuery, NoToken)
            /\ UNCHANGED <<threads, now, VALID_STATIC_TOKENS, vectorstore, held>>

\* database.py add_pdf: the value returned and the store after the call.
\* fail: nothing fails ("none"), process_pdf raises ("parse"),
\* add_documents raises after it stored `stored` of the chunks ("add"), or
\* persist raises ("persist").
add_pdf(store, fail, stored) ==
    IF fail = "parse" THEN [ok |-> FALSE, store |-> store]
    ELSE IF fail = "add"
    THEN [ok |-> FALSE, store |-> store \o SubSeq(Chunks, 1, stored)]
    ELSE IF fail = "persist" THEN [ok |-> FALSE, store |-> store \o Chunks]
    ELSE [ok |-> TRUE, store |-> store \o Chunks]

\* api.py upload_pdf: POST /admin/upload
AdminUploadRequest ==
    \E token \in AdminTokens, fail \in {"none", "parse", "add", "persist"},
       stored \in 0 .. (Len(Chunks) - 1) :
        LET req == Request("POST", "/admin/upload", token,
                           AtLimit,
                           NoCred,
                           [kind |-> "upload", filename |-> "doc.pdf"])
            added == add_pdf(vectorstore, fail, stored)
            routed == IF ~added.ok
                      THEN Raise(HTTPException(500, "Failed to index PDF."))
                      ELSE Return(Response(200,
                               [success |-> TRUE, filename |-> "doc.pdf"]))
        IN  /\ ReachesRouter(req, VALID_STATIC_TOKENS)
            /\ fail # "add" => stored = 0
            /\ Len(added.store) <= MaxIndex
            /\ vectorstore' = added.store
            /\ last' = Exchange(req,
                           ClientResponse(req, VALID_STATIC_TOKENS, routed),
                           "/admin/upload", NoQuery, NoToken)
            /\ UNCHANGED <<threads, now, VALID_STATIC_TOKENS, users_file, users_cache,
                           held>>

\* a clear that deletes one record only
clear_first_only(store) == IF store = <<>> THEN <<>> ELSE Tail(store)

\* database.py clear: the store after the call
clear(store) == <<>>

\* Python values: None, and an int
PyNone == [type |-> "NoneType"]
PyInt(n) == [type |-> "int", val |-> n]

\* database.py clear: the value returned.  The function returns at line 91
\* when it finds no ids and falls off its end after the deletion; the
\* number of ids goes to print only.
clear_returns(store) == PyNone

\* api.py clear_vector_store: POST /admin/clear.  store_fails: the
\* collection raises, and clear re-raises.  The exchange also records the
\* number of ids clear found, whether it raised, and what it returned.
AdminClearRequest ==
    \E token \in AdminTokens, store_fails \in BOOLEAN :
        LET req == Request("POST", "/admin/clear", token,
                           NoFraming,
                           NoCred, NoBody)
            routed == IF store_fails
                      THEN Raise([kind |-> "Exception", msg |-> "store error"])
                      ELSE Return(Response(200, [success |-> TRUE]))
        IN  /\ ReachesRouter(req, VALID_STATIC_TOKENS)
            /\ vectorstore' = IF store_fails THEN vectorstore
                              ELSE clear(vectorstore)
            /\ last' = Exchange(req,
                           ClientResponse(req, VALID_STATIC_TOKENS, routed),
                           "/admin/clear", NoQuery, NoToken)
                       @@ [ids |-> Len(vectorstore), raised |-> store_fails,
                           returned |-> clear_returns(vectorstore)]
            /\ UNCHANGED <<threads, now, VALID_STATIC_TOKENS, users_file, users_cache,
                           held>>

(***************************************************************************)
(* main.py root and api.py health_check: the public routes.                *)
(***************************************************************************)
PublicRequest ==
    \E path \in {"/", "/health"}, method \in {"GET", "POST"},
       token \in {NoHeader, Raw("abc")} :
        LET req == Request(method, path, token,
                           NoFraming,
                           NoCred, NoBody)
            routed == IF method # "GET"
                      THEN Raise(HTTPException(405, "Method Not Allowed"))
                      ELSE Return(Response(200, [info |-> path]))
        IN  /\ last' = Exchange(req,
                           ClientResponse(req, VALID_STATIC_TOKENS, routed),
                           IF method = "GET" THEN path ELSE "none",
                           NoQuery, NoToken)
            /\ UNCHANGED <<threads, now, VALID_STATIC_TOKENS, users_file, users_cache,
                           vectorstore, held>>

(***************************************************************************)
(* Spec: the retrieval service behind the security gateway.  SpecIndex:    *)
(* retrieval with the administration of the vector store.  SpecAuth: the   *)
(* authentication flows, with the administration of the credential store.  *)
(***************************************************************************)
Next ==
    \/ Advance
    \/ InfoRequest
    \/ RetrievalRequest
    \/ PublicRequest

Spec == Init /\ [][Next]_vars

NextIndex ==
    \/ RetrievalRequest
    \/ AdminUploadRequest
    \/ AdminClearRequest

SpecIndex == Init /\ [][NextIndex]_vars

\* the server process is stopped and started again: _users_cache is None
\* in the new process, users.json is what it was
Restart ==
    /\ users_cache' = NotLoaded
    /\ threads' = NoThreads
    /\ last' = Idle
    /\ UNCHANGED <<now, VALID_STATIC_TOKENS, users_file, vectorstore, held>>

\* threading.RLock: a thread gets the lock when no other thread owns it
LockAvailable_always(lock, t) == TRUE

LockAvailable(lock, t) == lock = NoOwner \/ lock = t

\* _users_cache as a value: not loaded, or the content of the object it
\* refers to
CacheView(cache, heap) ==
    IF cache = None THEN NotLoaded
    ELSE [loaded |-> TRUE, users |-> heap[cache]]

Active(t) == threads.th[t].pc \notin {"idle", "done"}

\* a request thread enters upsert_user(username, password)
CallUpsert ==
    \E t \in Threads, username \in Usernames, password \in Passwords :
        /\ threads.th[t].pc = "idle"
        /\ threads' =
              [threads EXCEPT
                 !.th[t] = [IdleThread EXCEPT !.pc = "acquire",
                                              !.username = username,
                                              !.password = password],
                 !.before = IF \A o \in Threads : threads.th[o].pc = "idle"
                            THEN load_users(users_cache, users_file).users
                            ELSE @,
                 !.concurrent = @ \/ \E o \in Threads \ {t} : Active(o)]
        /\ last' = Idle
        /\ UNCHANGED <<now, VALID_STATIC_TOKENS, users_file, users_cache,
                       vectorstore, held>>

\* user_store.py line 42: with _lock
AcquireLock ==
    \E t \in Threads :
        /\ threads.th[t].pc = "acquire"
        /\ LockAvailable(threads.lock, t)
        /\ threads' = [threads EXCEPT !.lock = t, !.th[t].pc = "check"]
        /\ UNCHANGED <<now, VALID_STATIC_TOKENS, users_file, users_cache,
                       vectorstore, held, last>>

\* user_store.py lines 17-18: _load_users returns the cached dict
LoadCheck ==
    \E t \in Threads :
        /\ threads.th[t].pc = "check"
        /\ threads' =
              IF threads.cache # None
              THEN [threads EXCEPT !.th[t].users = threads.cache,
                                   !.th[t].pc = "mutate"]
              ELSE [threads EXCEPT !.th[t].pc = "read"]
        /\ UNCHANGED <<now, VALID_STATIC_TOKENS, users_file, users_cache,
                       vectorstore, held, last>>

\* user_store.py lines 20-32: _load_users makes a dict of the file, makes
\* it the cache and returns it
LoadRead ==
    \E t \in Threads :
        /\ threads.th[t].pc = "read"
        /\ threads' = [threads EXCEPT !.heap[t] = ParseUsers(users_file),
                                      !.cache = t,
                                      !.th[t].users = t,
                                      !.th[t].pc = "mutate"]
        /\ users_cache' = CacheView(threads'.cache, threads'.heap)
        /\ UNCHANGED <<now, VALID_STATIC_TOKENS, users_file, vectorstore,
                       held, last>>

\* user_store.py line 44: users[username] = password
Mutate ==
    \E t \in Threads :
        LET self == threads.th[t]
        IN  /\ self.pc = "mutate"
            /\ threads' =
                  [threads EXCEPT
                     !.heap[self.users][self.username] = self.password,
                     !.th[t].pc = "save"]
            /\ users_cache' = CacheView(threads'.cache, threads'.heap)
            /\ UNCHANGED <<now, VALID_STATIC_TOKENS, users_file, vectorstore,
                           held, last>>

\* user_store.py line 45: _save_users(users)
Save ==
    \E t \in Threads, outcome \in SaveOutcomes :
        LET self == threads.th[t]
        IN  /\ self.pc = "save"
            /\ users_file' = save_users(threads.heap[self.users], users_file,
                                        outcome)
            /\ threads' = [threads EXCEPT !.th[t].raised = (outcome # "ok"),
                                          !.th[t].pc = "release"]
            /\ UNCHANGED <<now, VALID_STATIC_TOKENS, users_cache,
                           vectorstore, held, last>>

\* the end of the with block: the lock is released, and upsert_user
\* returns or the OSError goes on up
ReleaseLock ==
    \E t \in Threads :
        /\ threads.th[t].pc = "release"
        /\ threads' = [threads EXCEPT !.lock = NoOwner, !.th[t].pc = "done"]
        /\ UNCHANGED <<now, VALID_STATIC_TOKENS, users_file, users_cache,
                       vectorstore, held, last>>

\* both calls are over; the threads take the next requests
NextCalls ==
    /\ \A t \in Threads : threads.th[t].pc = "done"
    /\ threads' = [threads EXCEPT !.th = [t \in Threads |-> IdleThread],
                                  !.concurrent = FALSE]
    /\ UNCHANGED <<now, VALID_STATIC_TOKENS, users_file, users_cache,
                   vectorstore, held, last>>

(***************************************************************************)
(* SpecStore: the credential store under two request threads.              *)
(***************************************************************************)
NextStore ==
    \/ CallUpsert
    \/ AcquireLock
    \/ LoadCheck
    \/ LoadRead
    \/ Mutate
    \/ Save
    \/ ReleaseLock
    \/ NextCalls
    \/ Restart

SpecStore == Init /\ [][NextStore]_vars

(***************************************************************************)
(* SpecSanitize: sanitize_input, and the retrieve handler, applied to the  *)
(* texts of up to MaxText characters: each call takes the text of the      *)
(* call before it, or that text and one more character.                    *)
(***************************************************************************)
Alphabet == {"a", "b", "<", ">", "{", "}", "(", ")", ";", "&", "|", "'",
             "\""}

SanitizeInput ==
    /\ \E c \in Alphabet \cup {""} :
          LET prev == IF last.kind = "sanitize" THEN last.input ELSE <<>>
              text == IF c = "" THEN prev ELSE Append(prev, c)
              handled == retrieve(RetrievalBody(Prompt(text), 0),
                                  vectorstore, NoFailure, "stored")
          IN  /\ Len(text) <= MaxText
              /\ last' = [kind |-> "sanitize", input |-> text,
                          output |-> sanitize_input(text),
                          again |-> sanitize_input(sanitize_input(text)),
                          searched |-> handled.query]
    /\ UNCHANGED <<threads, now, VALID_STATIC_TOKENS, users_file,
                   users_cache, vectorstore, held>>

NextSanitize ==
    \/ SanitizeInput

SpecSanitize == Init /\ [][NextSanitize]_vars

NextAuth ==
    \/ Advance
    \/ AuthRequest
    \/ AdminUserRequest
    \/ Restart

SpecAuth == Init /\ [][NextAuth]_vars

(***************************************************************************)
(* The life of one token: a client obtains a token from                    *)
(* create_access_token, or makes one up with a key of its own, keeps it,   *)
(* and has it verified as time passes.                                     *)
(***************************************************************************)
Deltas == {NoDelta} \cup (0 .. MaxDelta)

IssueToken ==
    /\ \E sub \in Usernames, expires_delta \in Deltas :
          held' = [kind |-> "issued",
                   token |-> create_access_token(sub, expires_delta, now),
                   sub |-> sub, issued_at |-> now,
                   expires_delta |-> expires_delta]
    /\ last' = Idle
    /\ UNCHANGED <<threads, now, VALID_STATIC_TOKENS, users_file, users_cache,
                   vectorstore>>

ForgeToken ==
    /\ \E sub \in Usernames, exp \in {IntDate(now), FarExp} :
          held' = [kind |-> "forged", token |-> Jwt(sub, exp, OTHER_KEY),
                   sub |-> sub, issued_at |-> now, expires_delta |-> NoDelta]
    /\ last' = Idle
    /\ UNCHANGED <<threads, now, VALID_STATIC_TOKENS, users_file, users_cache,
                   vectorstore>>

VerifyHeld ==
    /\ held # NoHeld
    /\ last' = [kind |-> "verify", token |-> held.token,
                result |-> verify_token(held.token, now)]
    /\ UNCHANGED <<threads, now, VALID_STATIC_TOKENS, users_file, users_cache,
                   vectorstore, held>>

NextToken ==
    \/ Advance
    \/ IssueToken
    \/ ForgeToken
    \/ VerifyHeld

SpecToken == Init /\ [][NextToken]_vars

(***************************************************************************)
(* SpecSession: the life of a token while the credential store changes.    *)
(* A client logs in with a username and password (auth.py                  *)
(* authenticate_user_password) and keeps the token with the password it    *)
(* gave, or makes a token up; passwords are changed by POST /admin/user;   *)
(* the token is verified as time passes.                                   *)
(***************************************************************************)
Login ==
    /\ \E user \in Usernames, password \in Passwords :
          LET r == authenticate_user_password(user, password,
                       get_password(user, users_cache, users_file), now)
          IN  /\ r.success
              /\ held' = [kind |-> "login", token |-> r.token, sub |-> user,
                          issued_at |-> now,
                          expires_delta |-> DefaultLifetimeTicks,
                          password |-> password]
    /\ users_cache' = load_users(users_cache, users_file)
    /\ last' = Idle
    /\ UNCHANGED <<now, VALID_STATIC_TOKENS, users_file, vectorstore,
                   threads>>

NextSession ==
    \/ Advance
    \/ Login
    \/ ForgeToken
    \/ AdminUserRequest
    \/ VerifyHeld

SpecSession == Init /\ [][NextSession]_vars


(***************************************************************************)
(* Properties.                                                             *)
(***************************************************************************)
IsExchange == last.kind = "http"
NonExemptPath(path) == path \notin (AuthPaths \cup AdminPaths \cup DocPaths)

\* a session token that verifies at time t: signed with the server's key,
\* with a subject, and not expired
SessionTokenValid(token, t) ==
    /\ token.kind = "jwt"
    /\ token.key = SECRET_KEY
    /\ token.sub \in Usernames
    /\ token.exp >= IntDate(t)

IsStaticSecret(token) ==
    token.kind = "raw" /\ token.val \in AllowListValues(VALID_STATIC_TOKENS)

GatewayRejectedWith(status) ==
    /\ last.gate.kind = "raise"
    /\ last.gate.exc.status_code = status

\* C1: the handler of a protected route runs, and a similarity query is
\* issued to the vector store, only for a request whose token header carries
\* a session token that verifies at that moment, whatever the method.
C1_ProtectedNeedsValidToken ==
    IsExchange /\ (last.ran \in ProtectedPaths \/ last.query.issued)
        => SessionTokenValid(last.req.token, now)

C1_Witness ==
    /\ IsExchange
    /\ last.ran = "/retrieval"
    /\ last.query.issued
    /\ last.resp.status = 200

\* the lifetime T of the held token: the expires_delta passed when it is
\* not zero, the default otherwise
HeldLifetime ==
    IF held.expires_delta \in {NoDelta, 0} THEN DefaultLifetimeTicks
    ELSE held.expires_delta
MaxClock == MaxJumps * DefaultLifetimeTicks + MaxSubTicks

\* C2 as stated: a token issued with lifetime T verifies at every time up to
\* issuance + T and fails at every time after issuance + T; a token signed
\* with another key always fails.
C2_AsStated ==
    last.kind = "verify" =>
        /\ held.kind = "issued" /\ now <= held.issued_at + HeldLifetime
               => last.result = held.sub
        /\ held.kind = "issued" /\ now > held.issued_at + HeldLifetime
               => last.result = Invalid
        /\ held.kind = "forged" => last.result = Invalid

\* C2 (amended): a token issued with lifetime T verifies at every time up to
\* issuance + T, and further until the end of the whole second that
\* issuance + T lies in; it fails at every time from the next whole second
\* on and never verifies again; a token signed with another key always
\* fails.
C2_TokenLifecycle ==
    last.kind = "verify" =>
        /\ held.kind = "issued" /\ now <= held.issued_at + HeldLifetime
               => last.result = held.sub
        /\ held.kind = "issued"
               => (last.result = held.sub) =
                  (IntDate(now) <= IntDate(held.issued_at + HeldLifetime))
        /\ held.kind = "issued" /\ last.result = Invalid
               => \A t \in now .. MaxClock :
                      verify_token(held.token, t) = Invalid
        /\ held.kind = "forged" => last.result = Invalid

C2_Witness ==
    /\ last.kind = "verify"
    /\ held.kind = "issued"
    /\ now > held.issued_at + HeldLifetime
    /\ last.result = Invalid

\* C3 as stated: a request (other than OPTIONS) to a route that is not
\* exempt from the gateway, without the token header, is answered with 401
\* and no route handler runs.
C3_MissingTokenIs401 ==
    /\ IsExchange
    /\ last.req.method # "OPTIONS"
    /\ NonExemptPath(last.req.path)
    /\ last.req.token = NoHeader
    => last.resp.status = 401 /\ last.ran = "none"

C5_OversizeBodyRejected ==
    /\ IsExchange
    /\ last.req.method # "OPTIONS"
    /\ NonExemptPath(last.req.path)
    /\ last.req.token # NoHeader
    /\ ~IsStaticSecret(last.req.token)
    => /\ last.req.body_size > MAX_CONTENT_LENGTH
              => GatewayRejectedWith(413) /\ last.ran = "none"
       /\ last.req.body_size = MAX_CONTENT_LENGTH
              => ~GatewayRejectedWith(413)

\* C6 as stated: every response the server sends carries the full set of
\* headers of get_security_headers.
C6_EveryResponseHardened ==
    IsExchange => get_security_headers \subseteq last.resp.headers

\* C7 as stated: an administrative request that presents no authorization
\* (no token header, no bearer credential) mutates neither the vector store
\* nor the credential store.
C7_AdminNeedsAuthorization ==
    [][ /\ last'.kind = "http"
        /\ last'.req.path \in AdminPaths
        /\ last'.req.token = NoHeader
        /\ last'.req.cred.bearer = NoHeader
        => vectorstore' = vectorstore /\ users_file' = users_file ]_vars


\* the exchange was a TOKEN authentication that got to authenticate_user
IsTokenAuth ==
    /\ IsExchange
    /\ last.ran = "/auth"
    /\ last.req.cred.authMethod = "TOKEN"
    /\ last.req.cred.bearer # NoHeader
    /\ last.req.cred.bearer.val # ""

\* the exchange was a USERNAME_PASSWORD authentication that got to
\* authenticate_user_password
IsPasswordAuth ==
    /\ IsExchange
    /\ last.ran = "/auth"
    /\ last.req.cred.authMethod = "USERNAME_PASSWORD"
    /\ ~Falsy(last.req.cred.user)
    /\ ~Falsy(last.req.cred.password)

\* C8: static-token authentication succeeds, with a session token, if and
\* only if the presented secret is exactly (case-sensitively) a value of
\* the allow-list, and the token's subject is a key of that value;
\* otherwise success is false, the token is null and no token is issued.
C8_StaticTokenAuth ==
    IsTokenAuth =>
        LET secret == last.req.cred.bearer.val
            r == last.resp.body
        IN  /\ last.resp.status = 200
            /\ r.success = (secret \in AllowListValues(VALID_STATIC_TOKENS))
            /\ r.success =>
                  /\ r.token.kind = "jwt"
                  /\ <<r.token.sub, secret>> \in Range(VALID_STATIC_TOKENS)
                  /\ SessionTokenValid(r.token, now)
                  /\ last.issued = r.token
            /\ ~r.success => r.token = NoToken /\ last.issued = NoToken

C8_Witness ==
    /\ IsTokenAuth
    /\ last.req.cred.bearer.val = "xyz"
    /\ last.resp.body.success
    /\ last.resp.body.token.sub = "bob"

\* C9: username/password authentication succeeds, with a session token
\* whose subject is the presented username, if and only if the credential
\* store holds an entry for that username whose secret equals the
\* presented password; otherwise success is false, the token is null and
\* no token is issued.
C9_PasswordAuth ==
    IsPasswordAuth =>
        LET user == last.req.cred.user
            stored == get_password(user, users_cache, users_file)
            r == last.resp.body
        IN  /\ last.resp.status = 200
            /\ r.success = (stored # None /\ stored = last.req.cred.password)
            /\ r.success =>
                  /\ r.token.kind = "jwt"
                  /\ r.token.sub = user
                  /\ SessionTokenValid(r.token, now)
                  /\ last.issued = r.token
            /\ ~r.success => r.token = NoToken /\ last.issued = NoToken

C9_Witness ==
    /\ IsPasswordAuth
    /\ last.resp.body.success
    /\ last.resp.body.token.sub = "bob"
    /\ users_file["bob"] = "pw2"

\* C10: a failed authentication does not tell which check failed: the
\* response to a failed username/password authentication is the response
\* to every other failing pair, unknown username or wrong password alike,
\* and the response to a failed static-token authentication is the
\* response to every other secret that matches nothing.
C10_UniformFailure ==
    /\ IsPasswordAuth /\ ~last.resp.body.success =>
          \A u \in Usernames \cup {"mallory"}, pw \in Passwords :
              LET r == authenticate_user_password(u, pw,
                           get_password(u, users_cache, users_file), now)
              IN  ~r.success => last.resp.body = r
    /\ IsTokenAuth /\ ~last.resp.body.success =>
          \A secret \in Secrets :
              LET r == authenticate_user(secret, VALID_STATIC_TOKENS, now)
              IN  ~r.success => last.resp.body = r

C10_Witness ==
    /\ IsPasswordAuth
    /\ ~last.resp.body.success
    /\ users_file[last.req.cred.user] # None
    /\ users_file["bob"] = None

(***************************************************************************)
(* The credential store.                                                   *)
(***************************************************************************)
\* both threads' calls of upsert_user returned
BothReturned ==
    \A t \in Threads :
        threads.th[t].pc = "done" /\ ~threads.th[t].raised

\* C11: when two calls of upsert_user, however their steps interleave, have
\* both returned, users.json is readable and holds both entries if the
\* usernames differ, holds one of the two submitted passwords if the
\* usernames are the same, and every other username has what it had before
\* the two calls.
C11_ConcurrentUpserts ==
    BothReturned =>
        LET a == threads.th["t1"]
            b == threads.th["t2"]
        IN  /\ users_file # Corrupt
            /\ a.username # b.username =>
                   /\ users_file[a.username] = a.password
                   /\ users_file[b.username] = b.password
            /\ a.username = b.username =>
                   users_file[a.username] \in {a.password, b.password}
            /\ \A w \in Usernames \ {a.username, b.username} :
                   users_file[w] = threads.before[w]

C11_Witness ==
    /\ BothReturned
    /\ threads.concurrent
    /\ threads.th["t1"].username = threads.th["t2"].username
    /\ threads.th["t1"].password # threads.th["t2"].password
    /\ \E w \in Usernames : w # threads.th["t1"].username
                             /\ threads.before[w] # None

\* the exchange was a POST /admin/user whose handler returned
UpsertReturned(x) ==
    /\ x.kind = "http"
    /\ x.ran = "/admin/user"
    /\ x.resp.status = 200

\* C12: a POST /admin/user for (u, p) whose upsert_user returned leaves
\* get_password(u) = p, in memory and in users.json, whatever u had before,
\* leaves every other username with the password it had, and is answered
\* {success: true, username: u}.
C12_UpsertOverwrites ==
    [][ UpsertReturned(last') =>
          LET u == last'.req.body.username
              p == last'.req.body.password
          IN  /\ get_password(u, users_cache', users_file') = p
              /\ users_file'[u] = p
              /\ \A w \in Usernames \ {u} :
                     get_password(w, users_cache', users_file')
                         = get_password(w, users_cache, users_file)
              /\ last'.resp.body = [success |-> TRUE, username |-> u] ]_vars

C12_Witness ==
    /\ UpsertReturned(last)
    /\ last.req.body.username = "alice"
    /\ last.req.body.password = "pw2"
    /\ get_password("alice", users_cache, users_file) = "pw2"
    /\ get_password("bob", users_cache, users_file) = "pw1"

\* C13: the users file is the in-memory map: whenever the cache is loaded,
\* users.json holds exactly the entries of the cached dict, so that a
\* restart changes no answer of get_password.
C13_DurableEqualsMemory ==
    users_cache.loaded => users_file = users_cache.users

(***************************************************************************)
(* Retrieval.                                                              *)
(***************************************************************************)
\* the request was a retrieval request (a POST /retrieval with a body that
\* parses as a RetrievalRequest)
IsRetrieval ==
    /\ IsExchange
    /\ last.req.path = "/retrieval"
    /\ last.req.method = "POST"
    /\ last.req.body.kind = "retrieval"

\* the prompt of the request is absent or the empty string
EmptyPrompt(body) ==
    ~body.latestUserPrompt.present \/ body.latestUserPrompt.text = <<>>

\* C14: no retrieval request with an empty or absent prompt makes a query to
\* the vector store, and one that gets to the retrieve handler is answered
\* 400 "User prompt is required".
C14_EmptyPromptRejected ==
    IsRetrieval /\ EmptyPrompt(last.req.body) =>
        /\ ~last.query.issued
        /\ last.ran = "/retrieval" =>
               /\ last.resp.status = 400
               /\ last.resp.body = [detail |-> "User prompt is required"]

C14_Witness ==
    /\ IsRetrieval
    /\ last.ran = "/retrieval"
    /\ ~last.req.body.latestUserPrompt.present
    /\ last.resp.status = 400

\* the characters the prompt must not keep
Denylist == {"<", ">", "{", "}", "(", ")", ";", "&", "|", "'", "\""}
Clean(text) == \A i \in 1 .. Len(text) : text[i] \notin Denylist

\* text without its denylisted characters, the others in their order
RECURSIVE Kept(_)
Kept(text) ==
    IF text = <<>> THEN <<>>
    ELSE IF Head(text) \in Denylist THEN Kept(Tail(text))
    ELSE <<Head(text)>> \o Kept(Tail(text))

\* C15: for every text, sanitize_input returns the text without its
\* denylisted characters and with every other character in its place in
\* the order, and the prompt the retrieve handler hands to the similarity
\* search is that sanitized text: it holds no denylisted character.
C15_SanitizedBeforeSearch ==
    last.kind = "sanitize" =>
        /\ Clean(last.output)
        /\ last.output = Kept(last.input)
        /\ last.searched.issued =>
               /\ Clean(last.searched.prompt)
               /\ last.searched.prompt = Kept(last.input)

C15_Witness ==
    /\ last.kind = "sanitize"
    /\ last.input = <<"a", "<", "b">>
    /\ last.output = <<"a", "b">>
    /\ last.searched.issued
    /\ last.searched.prompt = <<"a", "b">>

\* C16: sanitizing a sanitized text changes nothing, and sanitizing a text
\* without denylisted characters returns the text.
C16_SanitizeIdempotent ==
    last.kind = "sanitize" =>
        /\ last.again = last.output
        /\ Clean(last.input) => last.output = last.input

C16_Witness ==
    /\ last.kind = "sanitize"
    /\ last.input = <<"<", "<", "a">>
    /\ last.output = <<"a">>
    /\ last.again = <<"a">>

\* the retrieval request was answered with contexts
Retrieved ==
    /\ IsRetrieval
    /\ last.ran = "/retrieval"
    /\ last.query.issued
    /\ last.resp.status = 200

\* C17: the search is asked for k = maxMatches records when maxMatches > 0
\* and for 3 otherwise; the response holds at most k contexts, one for each
\* document the index returned and in the index's order.
C17_RetrievalBound ==
    Retrieved =>
        LET maxMatches == last.req.body.maxMatches
            k == IF maxMatches > 0 THEN maxMatches ELSE 3
            docs == last.query.docs
            contexts == last.resp.body.contexts
        IN  /\ last.query.k = k
            /\ Len(contexts) <= k
            /\ Len(contexts) = Len(docs)
            /\ \A i \in 1 .. Len(docs) :
                   contexts[i].matchedContent = docs[i]

C17_Witness ==
    /\ Retrieved
    /\ last.req.body.maxMatches = -1
    /\ Len(vectorstore) = 4
    /\ Len(last.resp.body.contexts) = 3
    /\ last.resp.body.contexts[1].matchedContent = vectorstore[4]
    /\ vectorstore[4] # vectorstore[1]

\* C18: the response to a retrieval that failed does not depend on what
\* failed: it is the response the same request gets for every other cause.
C18_FailureIsOpaque ==
    /\ IsRetrieval
    /\ last.ran = "/retrieval"
    /\ last.query.issued
    /\ last.resp.status = 500
    => \A cause \in Causes :
           last.resp = ClientResponse(last.req, VALID_STATIC_TOKENS,
                           retrieve(last.req.body, vectorstore, cause,
                                    "stored").out)

(***************************************************************************)
(* The vector store.                                                       *)
(***************************************************************************)
\* C19: an upload that is answered with the server error leaves the index
\* with the records it had, and an upload that is answered with success
\* leaves it with those and every chunk of the document.
C19_IngestionAllOrNothing ==
    [][ last'.kind = "http" /\ last'.ran = "/admin/upload" =>
          /\ last'.resp.status = 500 => vectorstore' = vectorstore
          /\ last'.resp.status = 200 =>
                 vectorstore' = vectorstore \o Chunks ]_vars

\* the exchange was a POST /admin/clear whose clear() did not raise
Cleared ==
    /\ IsExchange
    /\ last.ran = "/admin/clear"
    /\ ~last.raised

\* C20 as stated: clear on an empty index returns a removed-count of zero.
C20_AsStated ==
    Cleared /\ last.ids = 0 =>
        /\ last.returned = PyInt(0)
        /\ last.resp.status = 200

\* C20: a clear that does not raise, on an empty index as on any other,
\* returns None (no count), leaves the index empty, so that every query
\* after it finds nothing, and is answered {success: true}.
C20_ClearIdempotent ==
    Cleared =>
        /\ last.returned = PyNone
        /\ vectorstore = <<>>
        /\ \A k \in 1 .. MaxIndex, ranking \in Rankings :
               similarity_search(vectorstore, <<"a">>, k, ranking) = <<>>
        /\ last.resp.status = 200
        /\ last.resp.body = [success |-> TRUE]

C20_Witness ==
    /\ Cleared
    /\ last.ids = 0
    /\ last.resp.status = 200
    /\ vectorstore = <<>>

\* the number of records of seq that are x
Count(seq, x) == Cardinality({ i \in 1 .. Len(seq) : seq[i] = x })

\* the contents matched by the contexts of the response
Matched == [i \in 1 .. Len(last.resp.body.contexts) |->
               last.resp.body.contexts[i].matchedContent]

\* C21: a retrieval that asks for at least as many records as the index
\* holds is answered with every record the index holds at that moment, so
\* with every chunk of every document added with success and not cleared
\* since: the retrieval path reads the index the administrative path
\* writes, and nothing stands between them.
C21_WritesVisibleToQueries ==
    Retrieved /\ last.query.k >= Len(vectorstore) =>
        /\ Len(Matched) = Len(vectorstore)
        /\ \A i \in 1 .. Len(vectorstore) :
               Count(Matched, vectorstore[i])
                   = Count(vectorstore, vectorstore[i])

C21_Witness ==
    /\ Retrieved
    /\ last.query.k = 4
    /\ vectorstore = Chunks \o Chunks
    /\ Len(Matched) = 4
    /\ Matched[1] = "chunk-2"

C23_VerificationStateless ==
    last.kind = "verify" =>
        last.result = IF SessionTokenValid(last.token, now)
                      THEN last.token.sub
                      ELSE Invalid

C23_Witness ==
    /\ last.kind = "verify"
    /\ held.kind = "login"
    /\ last.result = held.sub
    /\ get_password(held.sub, users_cache, users_file) # held.password
    /\ users_file[held.sub] # held.password

\* C24: every query made to the vector store has a prompt that is not
\* empty and a bound greater than 0.
C24_QueryWellFormed ==
    IsExchange /\ last.query.issued =>
        /\ last.query.prompt # <<>>
        /\ last.query.k > 0

\* the credentials the method of the request needs are missing, or the
\* method is not supported
IncompleteAuth(x) ==
    /\ x.kind = "http"
    /\ x.ran = "/auth"
    /\ \/ /\ x.req.cred.authMethod = "TOKEN"
          /\ \/ x.req.cred.bearer = NoHeader
             \/ x.req.cred.bearer.val = ""
       \/ /\ x.req.cred.authMethod = "USERNAME_PASSWORD"
          /\ Falsy(x.req.cred.user) \/ Falsy(x.req.cred.password)
       \/ x.req.cred.authMethod \in {"NONE", "KERBEROS"}

\* C25: an authentication request without the credentials of its method,
\* or with a method that is not supported, is answered with a 4xx status,
\* issues no token, does not load the credential store, and is answered
\* the same whatever the allow-list and the credential store hold; and
\* every token issued by /auth comes with a response of success.
C25_IncompleteAuthRejected ==
    [][ /\ IncompleteAuth(last') =>
              /\ last'.resp.status \in 400 .. 499
              /\ last'.issued = NoToken
              /\ users_cache' = users_cache
              /\ \A allow \in AllowLists, file \in UserMaps :
                     last'.resp = ClientResponse(last'.req, allow,
                                      authenticate(last'.req.cred, allow,
                                                   NotLoaded, file, now).out)
        /\ (last'.kind = "http" /\ last'.issued # NoToken) =>
              /\ last'.ran = "/auth"
              /\ last'.resp.status = 200
              /\ last'.resp.body.success
              /\ last'.resp.body.token = last'.issued ]_vars

C25_Witness ==
    /\ IncompleteAuth(last)
    /\ last.req.cred.authMethod = "USERNAME_PASSWORD"
    /\ last.req.cred.user = "alice"
    /\ last.req.cred.password = None
    /\ users_file["alice"] # None
    /\ last.resp.status = 400

=============================================================================
